---- MODULE Spec2Model ----
(***************************************************************************)
(* Smart-Task-Planner: the CPM/PERT scheduling engine                      *)
(* (backend/app/services.py, SchedulingService) and the task records it    *)
(* updates in place (backend/app/models.py, Task), the insight report      *)
(* (SchedulingService.generate_insights) and the API operations that call  *)
(* the engine (backend/app/main.py), and the task-generation service       *)
(* (OllamaService).                                                        *)
(*                                                                         *)
(* Numbers.  Durations and day offsets are Python floats in the source.    *)
(* The model measures them in ticks, TicksPerDay ticks to the day, and     *)
(* draws the three estimates from values whose PERT sum is a multiple of   *)
(* 6, so that every quantity the engine computes is an exact integer       *)
(* number of ticks.  Floating-point rounding is not modelled.              *)
(*                                                                         *)
(* Indices.  Task positions and graph nodes are 0-based, as in the source; *)
(* the task at position i of a sequence ts is ts[i + 1].                   *)
(***************************************************************************)
EXTENDS Integers, Sequences, FiniteSets, TLC

VARIABLES
    tasks,      \* the caller's list of Task objects, mutated in place
    before,     \* the same list as it was handed to the latest call
    ret,        \* outcome of the latest compute_schedule call
    response,   \* the latest API response (None before any request)
    plan,       \* the stored Plan row: deadline, total_duration, critical_path
    insights,   \* the latest generate_insights report (None before any)
    ollama      \* the latest call of OllamaService and what it returned

vars == <<tasks, before, ret, response, plan, insights, ollama>>

(***************************************************************************)
(* Bounds of the model.                                                    *)
(***************************************************************************)
MaxTasks == 3
MaxDepEntries == 2

(***************************************************************************)
(* Units and input values.                                                 *)
(***************************************************************************)
TicksPerDay == 6 * 1000

Days(k) == k * TicksPerDay

\* A column that holds NULL / None is the empty sequence, a value v is <<v>>.
None == <<>>
Some(v) == <<v>>
Val(x) == x[1]

\* Half-open range test and small helpers on sets and sequences.
Range(s) == {s[k] : k \in DOMAIN s}

Max(S) == CHOOSE x \in S : \A y \in S : y <= x
Min(S) == CHOOSE x \in S : \A y \in S : x <= y

RECURSIVE Asc(_)
Asc(S) == IF S = {} THEN <<>> ELSE <<Min(S)>> \o Asc(S \ {Min(S)})

Reverse(s) == [k \in 1..Len(s) |-> s[Len(s) + 1 - k]]

\* First-occurrence order without repetitions (a dict keeps insertion order).
Dedup(s) ==
    LET keep == Asc({k \in DOMAIN s : \A j \in 1..(k - 1) : s[j] # s[k]})
    IN  [n \in 1..Len(keep) |-> s[keep[n]]]

Abs(x) == IF x < 0 THEN -x ELSE x

(***************************************************************************)
(* Task records (models.py, class Task).  The input columns are the three  *)
(* estimates and the dependency list; the other columns are written by     *)
(* compute_schedule.                                                       *)
(***************************************************************************)
NewTask(est, deps) ==
    [ name                 |-> "Task",
      is_complete          |-> None,
      optimistic_duration  |-> est[1],
      most_likely_duration |-> est[2],
      pessimistic_duration |-> est[3],
      dependencies         |-> deps,
      expected_duration    |-> None,
      earliest_start       |-> None,
      earliest_finish      |-> None,
      latest_start         |-> None,
      latest_finish        |-> None,
      slack                |-> None,
      is_on_critical_path  |-> None,
      start_date           |-> None,
      end_date             |-> None ]

\* The columns compute_schedule reads.
Inputs(t) ==
    <<t.optimistic_duration, t.most_likely_duration, t.pessimistic_duration,
      t.dependencies>>

\* The columns compute_schedule writes.
Derived(t) ==
    <<t.expected_duration, t.earliest_start, t.earliest_finish, t.latest_start,
      t.latest_finish, t.slack, t.is_on_critical_path, t.start_date, t.end_date>>

InputsOf(ts) == [k \in DOMAIN ts |-> Inputs(ts[k])]
DerivedOf(ts) == [k \in DOMAIN ts |-> Derived(ts[k])]

\* The columns compute_schedule neither reads nor writes.
Opaque(t) == <<t.name, t.is_complete>>

OpaqueOf(ts) == [k \in DOMAIN ts |-> Opaque(ts[k])]

\* Task objects as the tests name them: "Task 1", "Task 2", ...
TaskName(k) == "Task " \o ToString(k)

Named(ts) == [k \in DOMAIN ts |-> [ts[k] EXCEPT !.name = TaskName(k)]]

Nodes(ts) == 0 .. (Len(ts) - 1)
TaskAt(ts, i) == ts[i + 1]

(***************************************************************************)
(* Step 1: PERT expected duration.                                         *)
(***************************************************************************)
\* Variant: a value already stored on the task is kept.
pert_expected_KeepSet(task) ==
    IF task.expected_duration # None
    THEN Val(task.expected_duration)
    ELSE (task.optimistic_duration + 4 * task.most_likely_duration
            + task.pessimistic_duration) \div 6

pert_expected(task) ==
    (task.optimistic_duration + 4 * task.most_likely_duration
        + task.pessimistic_duration) \div 6

\* Variant: the dependency list is rewritten to the entries that are in range.
WithExpected_PruneDeps(ts) ==
    [k \in DOMAIN ts |->
        [ts[k] EXCEPT
            !.expected_duration = Some(pert_expected(ts[k])),
            !.dependencies =
                SelectSeq(ts[k].dependencies,
                          LAMBDA d : 0 <= d /\ d < Len(ts))]]

WithExpected(ts) ==
    [k \in DOMAIN ts |->
        [ts[k] EXCEPT !.expected_duration = Some(pert_expected(ts[k]))]]

(***************************************************************************)
(* Step 2: the dependency graph.  G.add_edge(dep_idx, i) is called for     *)
(* every entry of tasks[i].dependencies that passes the range test, for i  *)
(* ascending.  A networkx DiGraph keeps adjacency in insertion order, so   *)
(* the successors of a node come in ascending order and the predecessors   *)
(* of a node in the order of its dependency list.                          *)
(***************************************************************************)
\* Variant: the range test also rejects a task's own index.
EdgeKept_SkipSelf(dep_idx, i, n) == 0 <= dep_idx /\ dep_idx < n /\ dep_idx # i

EdgeKept(dep_idx, i, n) == 0 <= dep_idx /\ dep_idx < n

\* Variant: an out-of-range index wraps around instead of being dropped.
KeptDeps_Wrap(ts, i) ==
    [k \in DOMAIN TaskAt(ts, i).dependencies |->
        TaskAt(ts, i).dependencies[k] % Len(ts)]

KeptDeps(ts, i) ==
    SelectSeq(TaskAt(ts, i).dependencies,
              LAMBDA d : EdgeKept(d, i, Len(ts)))

BuildGraph(ts) ==
    LET pred == [v \in Nodes(ts) |-> Dedup(KeptDeps(ts, v))]
    IN  [ nodes  |-> Nodes(ts),
          pred   |-> pred,
          succ   |-> [u \in Nodes(ts) |->
                        Asc({v \in Nodes(ts) : u \in Range(pred[v])})],
          weight |-> [v \in Nodes(ts) |-> Val(TaskAt(ts, v).expected_duration)] ]

(***************************************************************************)
(* networkx.topological_sort: Kahn's algorithm by generations.  The first  *)
(* generation is the nodes of in-degree 0 in node order; a node joins the  *)
(* next generation when its last remaining predecessor is processed.  The  *)
(* order is shorter than the node list exactly when the graph has a cycle  *)
(* (networkx then raises NetworkXUnfeasible).                              *)
(***************************************************************************)
RECURSIVE Visits(_, _)
Visits(G, gen) ==
    IF gen = <<>> THEN <<>> ELSE G.succ[Head(gen)] \o Visits(G, Tail(gen))

RECURSIVE Relax(_, _, _)
Relax(visits, indegree_map, zero_indegree) ==
    IF visits = <<>>
    THEN [indegree_map |-> indegree_map, zero_indegree |-> zero_indegree]
    ELSE LET child == Head(visits)
             d     == indegree_map[child] - 1
         IN  Relax(Tail(visits),
                   [indegree_map EXCEPT ![child] = d],
                   IF d = 0 THEN Append(zero_indegree, child) ELSE zero_indegree)

RECURSIVE Generations(_, _, _, _)
Generations(G, gen, indegree_map, order) ==
    IF gen = <<>>
    THEN order
    ELSE LET r == Relax(Visits(G, gen), indegree_map, <<>>)
         IN  Generations(G, r.zero_indegree, r.indegree_map, order \o gen)

topological_sort(G) ==
    LET in_degree == [v \in G.nodes |-> Len(G.pred[v])]
    IN  Generations(G, Asc({v \in G.nodes : in_degree[v] = 0}), in_degree, <<>>)

\* Step 3: networkx.is_directed_acyclic_graph.
is_directed_acyclic_graph(G) ==
    Len(topological_sort(G)) = Cardinality(G.nodes)

(***************************************************************************)
(* Step 5: forward pass over topo_order.                                   *)
(***************************************************************************)
\* Variant: the earliest predecessor finish instead of the latest.
EarliestStart_Min(G, task, earliest_finish, node) ==
    IF G.pred[node] = <<>>
    THEN 0
    ELSE Min({earliest_finish[p] : p \in Range(G.pred[node])})

\* Variant: a task without predecessors resumes from the finish it already holds.
EarliestStart_Stale(G, task, earliest_finish, node) ==
    IF G.pred[node] = <<>>
    THEN (IF task.earliest_finish = None THEN 0 ELSE Val(task.earliest_finish))
    ELSE Max({earliest_finish[p] : p \in Range(G.pred[node])})

\* Variant: every task starts at time 0, whatever its predecessors.
EarliestStart_Zero(G, task, earliest_finish, node) == 0

\* Variant: a task may start a day before its predecessors have finished.
EarliestStart_Overlap(G, task, earliest_finish, node) ==
    IF G.pred[node] = <<>>
    THEN 0
    ELSE Max({earliest_finish[p] : p \in Range(G.pred[node])}) - Days(1)

\* Variant: a task with predecessors waits for every task handled before it.
EarliestStart_AnyDone(G, task, earliest_finish, node) ==
    IF G.pred[node] = <<>>
    THEN 0
    ELSE Max({earliest_finish[p] : p \in DOMAIN earliest_finish})

\* Variant: only the predecessor listed first is waited for.
EarliestStart_First(G, task, earliest_finish, node) ==
    IF G.pred[node] = <<>>
    THEN 0
    ELSE earliest_finish[G.pred[node][1]]

EarliestStart(G, task, earliest_finish, node) ==
    IF G.pred[node] = <<>>
    THEN 0
    ELSE Max({earliest_finish[p] : p \in Range(G.pred[node])})

RECURSIVE ForwardPass(_, _, _, _, _)
ForwardPass(G, ts, order, earliest_start, earliest_finish) ==
    IF order = <<>>
    THEN [earliest_start |-> earliest_start, earliest_finish |-> earliest_finish]
    ELSE LET node == Head(order)
             task == TaskAt(ts, node)
             es   == EarliestStart(G, task, earliest_finish, node)
             ef   == es + Val(task.expected_duration)
         IN  ForwardPass(G, ts, Tail(order),
                         (node :> es) @@ earliest_start,
                         (node :> ef) @@ earliest_finish)

\* Variant: the finish of the last task of the list.
TotalDuration_Last(earliest_finish) ==
    IF DOMAIN earliest_finish = {}
    THEN 0
    ELSE earliest_finish[Max(DOMAIN earliest_finish)]

TotalDuration(earliest_finish) ==
    IF DOMAIN earliest_finish = {}
    THEN 0
    ELSE Max({earliest_finish[v] : v \in DOMAIN earliest_finish})

(***************************************************************************)
(* Step 6: backward pass over reversed(topo_order).                        *)
(***************************************************************************)
\* Variant: every task may finish as late as the project end.
LatestFinish_Total(G, latest_start, total_duration, node) == total_duration

\* Variant: the most lenient successor sets the latest finish.
LatestFinish_Max(G, latest_start, total_duration, node) ==
    IF G.succ[node] = <<>>
    THEN total_duration
    ELSE Max({latest_start[s] : s \in Range(G.succ[node])})

LatestFinish(G, latest_start, total_duration, node) ==
    IF G.succ[node] = <<>>
    THEN total_duration
    ELSE Min({latest_start[s] : s \in Range(G.succ[node])})

RECURSIVE BackwardPass(_, _, _, _, _, _)
BackwardPass(G, ts, order, total_duration, latest_start, latest_finish) ==
    IF order = <<>>
    THEN [latest_start |-> latest_start, latest_finish |-> latest_finish]
    ELSE LET node == Head(order)
             task == TaskAt(ts, node)
             lf   == LatestFinish(G, latest_start, total_duration, node)
             ls   == lf - Val(task.expected_duration)
         IN  BackwardPass(G, ts, Tail(order), total_duration,
                          (node :> ls) @@ latest_start,
                          (node :> lf) @@ latest_finish)

(***************************************************************************)
(* Step 7: slack and the near-zero-slack test (0.01 day).                  *)
(***************************************************************************)
Tolerance == TicksPerDay \div 100

\* Variant: the operands swapped.
Slack_Swapped(latest_start, earliest_start, node) ==
    earliest_start[node] - latest_start[node]

Slack(latest_start, earliest_start, node) ==
    latest_start[node] - earliest_start[node]

\* Variant: exact comparison with zero.
IsCritical_Exact(slack_value) == slack_value = 0

IsCritical(slack_value) == Abs(slack_value) < Tolerance

\* Step 8: calendar dates.  A datetime is measured in tenths of a second;
\* timedelta(days=x) turns a day offset (in ticks) into such a span.
DecisecondsPerDay == 24 * 60 * 60 * 10

\* Variant: only whole days are counted.
timedelta_WholeDays(days) == (days \div TicksPerDay) * DecisecondsPerDay

timedelta(days) == days * (DecisecondsPerDay \div TicksPerDay)

(***************************************************************************)
(* Step 9: networkx.dag_longest_path(G, weight='weight').  The weight key  *)
(* is looked up in the EDGE data; the graph's edges are added without      *)
(* data (only the nodes carry 'weight'), so every edge counts              *)
(* default_weight.  dist[v] is the pair <<length, u>> of the best          *)
(* predecessor, Python's max returning the first maximal element.          *)
(***************************************************************************)
edge_weight(G, u, v) == 1

RECURSIVE FirstMax(_, _)
\* First element of a non-empty sequence of pairs with the largest [1].
FirstMax(pairs, best) ==
    IF pairs = <<>> THEN best
    ELSE FirstMax(Tail(pairs),
                  IF Head(pairs)[1] > best[1] THEN Head(pairs) ELSE best)

RECURSIVE LongestDist(_, _, _)
LongestDist(G, order, dist) ==
    IF order = <<>>
    THEN dist
    ELSE LET v    == Head(order)
             us   == [k \in DOMAIN G.pred[v] |->
                        <<dist[G.pred[v][k]][1] + edge_weight(G, G.pred[v][k], v),
                          G.pred[v][k]>>]
             maxu == IF us = <<>> THEN <<0, v>> ELSE FirstMax(Tail(us), Head(us))
         IN  LongestDist(G, Tail(order),
                         (v :> (IF maxu[1] >= 0 THEN maxu ELSE <<0, v>>)) @@ dist)

RECURSIVE WalkBack(_, _, _)
\* path is built back to front: v, dist[v].u, ... until a node is its own u.
WalkBack(dist, v, path) ==
    IF dist[v][2] = v
    THEN <<v>> \o path
    ELSE WalkBack(dist, dist[v][2], <<v>> \o path)

dag_longest_path(G) ==
    IF G.nodes = {}
    THEN <<>>
    ELSE LET order == topological_sort(G)
             dist  == LongestDist(G, order, <<>>)
             ends  == [k \in DOMAIN order |-> <<dist[order[k]][1], order[k]>>]
             v     == FirstMax(Tail(ends), Head(ends))[2]
         IN  WalkBack(dist, v, <<>>)

(***************************************************************************)
(* Steps 5 to 9 of compute_schedule for the order topo_order: the passes,  *)
(* slack and flags, the write-back into the tasks, and the returned tuple. *)
(***************************************************************************)
ScheduleInOrder(G, t1, topo_order, start_date) ==
    LET fwd            == ForwardPass(G, t1, topo_order, <<>>, <<>>)
        total_duration == TotalDuration(fwd.earliest_finish)
        bwd            == BackwardPass(G, t1, Reverse(topo_order), total_duration,
                                       <<>>, <<>>)
        slack          == [node \in G.nodes |->
                             Slack(bwd.latest_start, fwd.earliest_start, node)]
        critical_path_nodes == {node \in G.nodes : IsCritical(slack[node])}
        t2 == [k \in DOMAIN t1 |->
                 [t1[k] EXCEPT
                    !.earliest_start      = Some(fwd.earliest_start[k - 1]),
                    !.earliest_finish     = Some(fwd.earliest_finish[k - 1]),
                    !.latest_start        = Some(bwd.latest_start[k - 1]),
                    !.latest_finish       = Some(bwd.latest_finish[k - 1]),
                    !.slack               = Some(slack[k - 1]),
                    !.is_on_critical_path =
                        Some(IF (k - 1) \in critical_path_nodes THEN 1 ELSE 0),
                    !.start_date          =
                        Some(start_date + timedelta(fwd.earliest_start[k - 1])),
                    !.end_date            =
                        Some(start_date + timedelta(fwd.earliest_finish[k - 1]))]]
    IN  [raised |-> FALSE, tasks |-> t2, critical_path |-> dag_longest_path(G),
         total_duration |-> total_duration]

(***************************************************************************)
(* SchedulingService.compute_schedule(tasks, start_date).  The result is   *)
(* the task list as the call leaves it, whether the call raised the cycle  *)
(* ValueError, and the returned critical_path and total_duration.          *)
(***************************************************************************)
\* Variant: an empty list is refused.
EmptyResult_Refused ==
    [raised |-> TRUE, tasks |-> <<>>, critical_path |-> <<>>, total_duration |-> 0]

\* return [], [], 0.0
EmptyResult ==
    [raised |-> FALSE, tasks |-> <<>>, critical_path |-> <<>>, total_duration |-> 0]

compute_schedule(ts, start_date) ==
    IF ts = <<>>
    THEN EmptyResult
    ELSE
    LET t1 == WithExpected(ts)
        G  == BuildGraph(t1)
    IN
    IF ~is_directed_acyclic_graph(G)
    THEN [raised |-> TRUE, tasks |-> t1, critical_path |-> <<>>,
          total_duration |-> 0]
    ELSE ScheduleInOrder(G, t1, topological_sort(G), start_date)

(***************************************************************************)
(* SchedulingService.generate_insights(plan).  A plan is a record of its   *)
(* tasks, deadline (None or a datetime), total_duration and critical_path. *)
(* round(x, 2) rounds a number of days to hundredths, that is a number of  *)
(* ticks to the nearest multiple of TicksPerDay / 100; the inputs of the   *)
(* model keep away from exact halves of a hundredth.                       *)
(***************************************************************************)
\* A hundredth of a day, in ticks.
Hundredth == TicksPerDay \div 100

\* The nearest integer to num / den, for den > 0.
RoundDiv(num, den) == (2 * num + den) \div (2 * den)

\* Variant: no rounding at all.
Round2_Exact(x) == x

\* round(x, 2) for x in ticks.
Round2(x) == Hundredth * RoundDiv(x, Hundredth)

Truthy(x) == x # None /\ Val(x) # 0

\* task.slack or 0
SlackOrZero(task) == IF task.slack = None THEN 0 ELSE Val(task.slack)

RECURSIVE SumSeq(_)
SumSeq(q) == IF q = <<>> THEN 0 ELSE Head(q) + SumSeq(Tail(q))

completed_tasks(ts) == Cardinality({k \in DOMAIN ts : Truthy(ts[k].is_complete)})

\* round((completed_tasks / total_tasks) * 100, 2), in hundredths of a percent.
progress_percentage(ts) == RoundDiv(100 * 100 * completed_tasks(ts), Len(ts))

\* round(mean(slack_values), 2) over the slacks that are set.
average_slack(ts) ==
    LET slack_values == SelectSeq([k \in DOMAIN ts |-> ts[k].slack], LAMBDA x : x # None)
    IN  IF slack_values = <<>>
        THEN 0
        ELSE Hundredth * RoundDiv(SumSeq([k \in DOMAIN slack_values |-> Val(slack_values[k])]),
                                  Hundredth * Len(slack_values))

\* Variant: only a slack of exactly zero counts.
IsZeroSlack_Exact(task) == SlackOrZero(task) <= 0

\* (task.slack or 0) <= 0.1
IsZeroSlack(task) == SlackOrZero(task) <= TicksPerDay \div 10

zero_slack_tasks(ts) == Cardinality({k \in DOMAIN ts : IsZeroSlack(ts[k])})

\* The names along plan.critical_path, or of the flagged tasks when it is empty.
critical_path_names(p) ==
    IF p.critical_path # <<>>
    THEN [q \in DOMAIN p.critical_path |->
            LET node == p.critical_path[q]
            IN  IF 0 <= node /\ node < Len(p.tasks)
                THEN TaskAt(p.tasks, node).name
                ELSE ToString(node)]
    ELSE LET flagged == SelectSeq(p.tasks, LAMBDA t : Truthy(t.is_on_critical_path))
         IN  [q \in DOMAIN flagged |-> flagged[q].name]

\* Variant: completed tasks are listed as well.
IsHighRisk_AnyStatus(task) == SlackOrZero(task) < TicksPerDay

\* slack_value < 1.0 and not task.is_complete
IsHighRisk(task) == SlackOrZero(task) < TicksPerDay /\ ~Truthy(task.is_complete)

\* One entry of high_risk_candidates; id is the task's position in the plan.
RiskEntry(ts, k) ==
    [ id                |-> k - 1,
      name              |-> ts[k].name,
      slack             |-> Round2(SlackOrZero(ts[k])),
      expected_duration |-> Round2(IF ts[k].expected_duration = None
                                   THEN 0 ELSE Val(ts[k].expected_duration)),
      impact            |-> IF Truthy(ts[k].is_on_critical_path)
                            THEN "Critical" ELSE "High" ]

high_risk_candidates(ts) ==
    LET picked == SelectSeq([k \in DOMAIN ts |-> k], LAMBDA k : IsHighRisk(ts[k]))
    IN  [q \in DOMAIN picked |-> RiskEntry(ts, picked[q])]

\* sorted(items, key=lambda item: item["slack"]): a stable sort.
RECURSIVE InsertBySlack(_, _)
InsertBySlack(sorted, item) ==
    IF sorted = <<>> THEN <<item>>
    ELSE IF sorted[Len(sorted)].slack <= item.slack
         THEN Append(sorted, item)
         ELSE Append(InsertBySlack(SubSeq(sorted, 1, Len(sorted) - 1), item),
                     sorted[Len(sorted)])

RECURSIVE SortedBySlack(_)
SortedBySlack(items) ==
    IF items = <<>> THEN <<>>
    ELSE InsertBySlack(SortedBySlack(SubSeq(items, 1, Len(items) - 1)),
                       items[Len(items)])

\* Variant: the first five candidates in plan order.
high_risk_tasks_Unsorted(ts) ==
    SubSeq(high_risk_candidates(ts), 1, Min({5, Len(high_risk_candidates(ts))}))

\* sorted(high_risk_candidates, key=...)[:5]
high_risk_tasks(ts) ==
    LET sorted == SortedBySlack(high_risk_candidates(ts))
    IN  SubSeq(sorted, 1, Min({5, Len(sorted)}))

\* (plan.deadline - baseline_start).total_seconds() / 86400, in ticks.  The
\* current moment stands in when no task has a start date.
days_available(p, now) ==
    LET start_dates == {Val(p.tasks[k].start_date) :
                           k \in {q \in DOMAIN p.tasks : p.tasks[q].start_date # None}}
        baseline_start == IF start_dates # {} THEN Min(start_dates) ELSE now
    IN  (Val(p.deadline) - baseline_start) \div (DecisecondsPerDay \div TicksPerDay)

\* buffer_days: None without a deadline.
buffer_days(p, now) ==
    IF p.deadline = None
    THEN None
    ELSE Some(Round2(days_available(p, now) - p.total_duration))

\* Variant: a plan with no buffer left counts as behind.
deadline_status_Strict(buffer) ==
    IF buffer = None THEN "No deadline"
    ELSE IF Val(buffer) >= Days(5) THEN "On track"
    ELSE IF Val(buffer) > 0 THEN "At risk"
    ELSE "Behind"

deadline_status(buffer) ==
    IF buffer = None THEN "No deadline"
    ELSE IF Val(buffer) >= Days(5) THEN "On track"
    ELSE IF Val(buffer) >= 0 THEN "At risk"
    ELSE "Behind"

deadline_message(buffer, total_duration) ==
    IF buffer = None
    THEN <<"No deadline provided; total duration is", total_duration>>
    ELSE IF Val(buffer) >= Days(5)
    THEN <<"Deadline achievable with", Val(buffer)>>
    ELSE IF Val(buffer) >= 0
    THEN <<"Deadline is achievable but only", Val(buffer)>>
    ELSE <<"Schedule exceeds the deadline by", Abs(Val(buffer))>>

\* Variant: two zero-slack tasks in five already weigh 2.
zero_slack_score_Inclusive(zero_slack, total_tasks) ==
    IF 10 * zero_slack >= 4 * total_tasks THEN 2
    ELSE IF 10 * zero_slack >= 2 * total_tasks THEN 1
    ELSE 0

\* zero_slack_ratio > 0.4: +2; > 0.2: +1.
zero_slack_score(zero_slack, total_tasks) ==
    IF 10 * zero_slack > 4 * total_tasks THEN 2
    ELSE IF 10 * zero_slack > 2 * total_tasks THEN 1
    ELSE 0

risk_score(ts, buffer) ==
    (IF buffer = None THEN 0
     ELSE IF Val(buffer) < 0 THEN 2
     ELSE IF Val(buffer) < Days(3) THEN 1
     ELSE 0)
    + zero_slack_score(zero_slack_tasks(ts), Len(ts))
    + (IF Len(high_risk_tasks(ts)) >= 3 THEN 1 ELSE 0)
    + (IF progress_percentage(ts) < 30 * 100 /\ completed_tasks(ts) < Len(ts)
       THEN 1 ELSE 0)

overall_risk(score) ==
    IF score >= 4 THEN "High"
    ELSE IF score >= 2 THEN "Medium"
    ELSE "Low"

recommendations(ts, buffer) ==
    (IF buffer # None
     THEN (IF Val(buffer) < 0
           THEN <<"Extend the deadline or remove scope; the plan exceeds the available time.">>
           ELSE IF Val(buffer) < Days(3)
           THEN <<"Add contingency or accelerate critical tasks to improve the schedule buffer.">>
           ELSE <<>>)
     ELSE <<"Set a deadline to track schedule risk and buffer more effectively.">>)
    \o (IF high_risk_tasks(ts) # <<>>
        THEN <<"Prioritise '" \o high_risk_tasks(ts)[1].name \o "' - slack is only "
                 \o ToString(high_risk_tasks(ts)[1].slack) \o " ticks.">>
        ELSE <<>>)
    \o (IF zero_slack_tasks(ts) > 0
        THEN <<"Introduce parallel workstreams or re-sequence tasks to reduce the number of zero-slack items.">>
        ELSE <<>>)
    \o (IF progress_percentage(ts) < 100 * 100
        THEN <<"Review completed work weekly and update task statuses to keep the plan accurate.">>
        ELSE <<>>)

generate_insights(p, now) ==
    IF p.tasks = <<>>
    THEN [ overall_risk        |-> "Low",
           progress_percentage |-> 0,
           average_slack       |-> 0,
           zero_slack_tasks    |-> 0,
           deadline_status     |-> "No schedule",
           deadline_message    |-> <<"No tasks available to analyse">>,
           buffer_days         |-> None,
           critical_path       |-> <<>>,
           high_risk_tasks     |-> <<>>,
           recommendations     |->
               <<"Generate tasks for this plan to unlock scheduling insights.">> ]
    ELSE LET buffer == buffer_days(p, now)
         IN  [ overall_risk        |-> overall_risk(risk_score(p.tasks, buffer)),
               progress_percentage |-> progress_percentage(p.tasks),
               average_slack       |-> average_slack(p.tasks),
               zero_slack_tasks    |-> zero_slack_tasks(p.tasks),
               deadline_status     |-> deadline_status(buffer),
               deadline_message    |-> deadline_message(buffer, p.total_duration),
               buffer_days         |-> buffer,
               critical_path       |-> critical_path_names(p),
               high_risk_tasks     |-> high_risk_tasks(p.tasks),
               recommendations     |-> recommendations(p.tasks, buffer) ]

(***************************************************************************)
(* Inputs the model draws from.                                            *)
(***************************************************************************)
SeqsUpTo(S, n) == UNION {[1..k -> S] : k \in 0..n}

\* Three-point estimates <<optimistic, most_likely, pessimistic>> in ticks:
\* the short one of the test suite (expected 2 days), and three others: the
\* long one of the test suite (expected 5 days), one a thousandth of a day
\* longer than the short one, and one that is not positive.
Short == <<Days(1), Days(2), Days(3)>>
Long  == <<Days(2), Days(5), Days(8)>>
Near  == <<Days(1), Days(2), Days(3) + 6>>
Neg   == <<-Days(1), -Days(1), -Days(1)>>

EstimateChoices == {Short, Long, Near, Neg}

\* Estimates for n tasks: at most one task departs from Short.
EstimateLists(n) ==
    {est \in [1..n -> EstimateChoices] :
        Cardinality({k \in 1..n : est[k] # Short}) <= 1}

\* Dependency entries for a list of n tasks: every position, one index below
\* the range and one above it.
DepIdx(n) == -1 .. n

\* Dependency lists for n tasks, k of them still to choose, with at most
\* budget entries in all.
RECURSIVE DepConfigsFrom(_, _, _)
DepConfigsFrom(n, k, budget) ==
    IF k = 0
    THEN {<<>>}
    ELSE UNION { { <<d>> \o rest : rest \in DepConfigsFrom(n, k - 1, budget - Len(d)) }
                 : d \in SeqsUpTo(DepIdx(n), budget) }

DepConfigs(n) == DepConfigsFrom(n, n, MaxDepEntries)

\* Project start dates (datetime values, in tenths of a second).
ProjectStart == timedelta(Days(1))
LaterStart   == ProjectStart + timedelta(Days(1))

\* ret before any call, and the shape of ret after a call: the outcome is "ok"
\* (the tuple was returned) or "ValueError" (the cycle error was raised).
NoCall == [outcome |-> "none", critical_path |-> <<>>, total_duration |-> 0,
           start_date |-> 0]

\* The Plan columns while no plan is stored.
NoPlan == [deadline |-> None, total_duration |-> 0, critical_path |-> <<>>]

\* No API request has been answered, no plan is stored and no report has been
\* produced.
\* No call of OllamaService has been made.
NoServiceCall == [op |-> "none"]

NoRequest == response = None /\ plan = NoPlan /\ insights = None /\ ollama = NoServiceCall

Called == ret.outcome # "none"
Succeeded == ret.outcome = "ok"
Rejected == ret.outcome = "ValueError"

(***************************************************************************)
(* The state machine.  Init: a list of freshly constructed Task objects,   *)
(* as the tests and create_plan build them (every derived column None).    *)
(***************************************************************************)
Init ==
    /\ \E n \in 0..MaxTasks :
         \E deps \in DepConfigs(n) :
            \E est \in EstimateLists(n) :
                tasks = Named([k \in 1..n |-> NewTask(est[k], deps[k])])
    /\ before = tasks
    /\ ret = NoCall
    /\ NoRequest

\* One call of compute_schedule on the caller's list.
Call(ts, start_date) ==
    LET r == compute_schedule(ts, start_date)
    IN  /\ before' = ts
        /\ tasks' = r.tasks
        /\ ret' = [outcome        |-> IF r.raised THEN "ValueError" ELSE "ok",
                   critical_path  |-> r.critical_path,
                   total_duration |-> r.total_duration,
                   start_date     |-> start_date]

ComputeSchedule(start_date) ==
    /\ Call(tasks, start_date)
    /\ UNCHANGED <<response, plan, insights, ollama>>

Next ==
    ComputeSchedule(ProjectStart)

Spec == Init /\ [][Next]_vars

(***************************************************************************)
(* A second specification: a stored plan whose task durations are edited   *)
(* through update_plan, which assigns the new estimates to the Task        *)
(* objects and calls compute_schedule on them with start_date=None (the    *)
(* current moment).  The plans are lists of Short tasks each of which      *)
(* depends on nothing, on the task before it, or on all tasks before it    *)
(* (the shapes of the test suite and of the fallback plan).                *)
(***************************************************************************)
UpdateEstimates == {Short, Long}

PlanDeps(k) ==
    {<<>>} \cup (IF k > 1 THEN {<<k - 2>>, [q \in 1..(k - 1) |-> q - 1]} ELSE {})

InitUpdate ==
    /\ \E n \in 1..MaxTasks :
         \E deps \in [1..n -> UNION {PlanDeps(k) : k \in 1..n}] :
            /\ \A k \in 1..n : deps[k] \in PlanDeps(k)
            /\ tasks = Named([k \in 1..n |-> NewTask(Short, deps[k])])
    /\ before = tasks
    /\ ret = NoCall
    /\ NoRequest

\* update_plan with an update for task i that carries the three durations.
EditAndSchedule(i, est, now) ==
    /\ Succeeded
    /\ i \in DOMAIN tasks
    /\ Call([tasks EXCEPT ![i].optimistic_duration  = est[1],
                          ![i].most_likely_duration = est[2],
                          ![i].pessimistic_duration = est[3]],
            now)
    /\ UNCHANGED <<response, plan, insights, ollama>>

NextUpdate ==
    \/ ComputeSchedule(ProjectStart)
    \/ \E i \in 1..MaxTasks, est \in UpdateEstimates, now \in {ProjectStart, LaterStart} :
         EditAndSchedule(i, est, now)

SpecUpdate == InitUpdate /\ [][NextUpdate]_vars

(***************************************************************************)
(* A third specification: the fan-in plans of the test suite.  A start     *)
(* task, two parallel tasks that depend on it, and an end task that        *)
(* depends on both, at any positions of a four-task list.                  *)
(***************************************************************************)
Unit     == <<Days(1), Days(1), Days(1)>>
Middle   == <<Days(2), Days(3), Days(4)>>
VeryLong == <<Days(5), Days(10), Days(15)>>

EndEstimates    == {Unit, Short}
BranchEstimates == {Short, Near, Middle, Long, VeryLong}

\* ts is a fan-in with start s, branches a and b and end e (0-based positions).
IsDiamond(ts, s, a, b, e) ==
    /\ Len(ts) = 4
    /\ {s, a, b, e} = Nodes(ts)
    /\ TaskAt(ts, s).dependencies = <<>>
    /\ TaskAt(ts, a).dependencies = <<s>>
    /\ TaskAt(ts, b).dependencies = <<s>>
    /\ Range(TaskAt(ts, e).dependencies) = {a, b}
    /\ Len(TaskAt(ts, e).dependencies) = 2

InitDiamond ==
    /\ \E s, a, b, e \in 0..3 :
         \E es, ee \in EndEstimates, ea, eb \in BranchEstimates :
            /\ {s, a, b, e} = 0..3
            /\ tasks = Named([k \in 1..4 |->
                  IF k - 1 = s THEN NewTask(es, <<>>)
                  ELSE IF k - 1 = a THEN NewTask(ea, <<s>>)
                  ELSE IF k - 1 = b THEN NewTask(eb, <<s>>)
                  ELSE NewTask(ee, <<a, b>>)])
    /\ before = tasks
    /\ ret = NoCall
    /\ NoRequest

SpecDiamond == InitDiamond /\ [][Next]_vars

(***************************************************************************)
(* A fourth specification: the API operations of main.py that call         *)
(* compute_schedule, on one stored plan.  tasks is the plan's stored task  *)
(* list (empty while no plan is stored); an operation that fails rolls the *)
(* transaction back, so the stored list stays as it was.  Every operation  *)
(* passes start_date=None, so the schedule starts at the current moment.   *)
(*                                                                         *)
(* The task dictionaries that create_plan, refine_plan_with_feedback and   *)
(* natural_language_update turn into Task objects come from OllamaService, *)
(* that is from the language model's reply or from the service's fallback  *)
(* (the plan's current tasks); the handlers are modelled for each list of  *)
(* TaskDictLists.  A task dictionary is <<estimates, dependencies>>.       *)
(***************************************************************************)
TaskDictLists ==
    { <<>>,
      << <<Short, <<>>>> >>,
      << <<Short, <<>>>>, <<Long, <<>>>> >>,
      << <<Short, <<>>>>, <<Short, <<0>>>> >>,
      << <<Short, <<>>>>, <<Long, <<0>>>>, <<Short, <<1>>>> >>,
      << <<Short, <<1>>>>, <<Short, <<0>>>> >>,
      << <<Short, <<>>>>, <<Long, <<2>>>>, <<Short, <<1>>>> >> }

\* models.Task(name=..., optimistic_duration=..., ..., dependencies=...)
TasksFromDicts(dicts) ==
    Named([k \in DOMAIN dicts |-> NewTask(dicts[k][1], dicts[k][2])])

\* db.commit() inserts the new rows: the column default of is_complete applies.
Inserted(ts) ==
    [k \in DOMAIN ts |->
        [ts[k] EXCEPT !.is_complete =
            IF ts[k].is_complete = None THEN Some(0) ELSE ts[k].is_complete]]

\* The dependency lists an update may carry for one task (None: not given).
DependencyUpdates == {None} \cup {Some(d) : d \in SeqsUpTo(0..2, 1)}

\* The is_complete values an update may carry for one task (None: not given).
CompletionUpdates == {None, Some(TRUE)}

CycleMessage == "Task dependencies contain a cycle. Please check dependencies."

Response(op, status, detail) == Some([op |-> op, status |-> status, detail |-> detail])

\* Variant: the failed attempt is left in the database.
rollback_KeepAttempt(stored, attempted) == attempted

\* db.rollback(): edits, deletions and insertions of the open transaction are
\* undone, and the stored rows are what they were at the last commit.
rollback(stored, attempted) == stored

\* A handler's try block from the compute_schedule call on: the call with
\* start_date=None, then the Plan columns, commit and the success status, or
\* the rollback and the status of the except clause that catches the
\* ValueError.
ScheduleAndStore(op, ts, dl, okStatus, valueErrorStatus, prefix) ==
    LET r == compute_schedule(ts, ProjectStart)
    IN  /\ before' = ts
        /\ ret' = [outcome        |-> IF r.raised THEN "ValueError" ELSE "ok",
                   critical_path  |-> r.critical_path,
                   total_duration |-> r.total_duration,
                   start_date     |-> ProjectStart]
        /\ tasks' = IF r.raised THEN rollback(tasks, r.tasks) ELSE Inserted(r.tasks)
        /\ plan' = IF r.raised THEN plan
                   ELSE [deadline       |-> dl,
                         total_duration |-> r.total_duration,
                         critical_path  |-> r.critical_path]
        /\ response' = IF r.raised
                       THEN Response(op, valueErrorStatus, prefix \o CycleMessage)
                       ELSE Response(op, okStatus, "")
        /\ insights' = None
        /\ UNCHANGED ollama

PlanStored == tasks # <<>>

\* POST /api/plan
create_plan(task_dicts, dl) ==
    /\ ~PlanStored
    /\ IF task_dicts = <<>>
       THEN /\ response' = Response("create_plan", 500,
                                    "Error creating plan: 500: Failed to generate tasks from goal")
            /\ insights' = None
            /\ UNCHANGED <<tasks, before, ret, plan, ollama>>
       ELSE ScheduleAndStore("create_plan", TasksFromDicts(task_dicts), dl, 201, 400, "")

\* PUT /api/plan/{plan_id}/update, with an update for the task at position i.
update_plan(i, dependencies, is_complete) ==
    /\ PlanStored
    /\ LET edited ==
             IF i \in DOMAIN tasks
             THEN [tasks EXCEPT
                     ![i].dependencies = IF dependencies # None
                                         THEN Val(dependencies) ELSE @,
                     ![i].is_complete  = IF is_complete # None
                                         THEN Some(IF Val(is_complete) THEN 1 ELSE 0)
                                         ELSE @]
             ELSE tasks
       IN  ScheduleAndStore("update_plan", edited, plan.deadline, 200, 400, "")

\* POST /api/plan/{plan_id}/feedback
refine_plan_with_feedback(refined_tasks) ==
    /\ PlanStored
    /\ ScheduleAndStore("refine_plan_with_feedback", TasksFromDicts(refined_tasks),
                        plan.deadline, 200, 500, "Error refining plan: ")

\* POST /api/plan/{plan_id}/natural-update
natural_language_update(updated_tasks) ==
    /\ PlanStored
    /\ ScheduleAndStore("natural_language_update", TasksFromDicts(updated_tasks),
                        plan.deadline, 200, 500,
                        "Error processing natural language update: ")

\* DELETE /api/plan/{plan_id}
delete_plan ==
    /\ PlanStored
    /\ tasks' = <<>>
    /\ plan' = NoPlan
    /\ response' = Response("delete_plan", 204, "")
    /\ insights' = None
    /\ UNCHANGED <<before, ret, ollama>>

\* GET /api/plan/{plan_id}/insights
get_plan_insights ==
    /\ PlanStored
    /\ insights' = Some(generate_insights(
                       [tasks          |-> tasks,
                        deadline       |-> plan.deadline,
                        total_duration |-> plan.total_duration,
                        critical_path  |-> plan.critical_path],
                       ProjectStart))
    /\ response' = Response("get_plan_insights", 200, "")
    /\ UNCHANGED <<tasks, before, ret, plan, ollama>>

InitApi ==
    /\ tasks = <<>>
    /\ before = <<>>
    /\ ret = NoCall
    /\ NoRequest

NextApi ==
    \/ \E task_dicts \in TaskDictLists : create_plan(task_dicts, None)
    \/ \E i \in 1..MaxTasks, d \in DependencyUpdates, c \in CompletionUpdates :
         update_plan(i, d, c)
    \/ \E refined_tasks \in TaskDictLists \ {<<>>} :
         refine_plan_with_feedback(refined_tasks)
    \/ \E updated_tasks \in TaskDictLists \ {<<>>} :
         natural_language_update(updated_tasks)
    \/ delete_plan
    \/ get_plan_insights

SpecApi == InitApi /\ [][NextApi]_vars

(***************************************************************************)
(* A fifth specification: the insight report.  A plan of parallel tasks is *)
(* created with or without a deadline, tasks are marked complete through   *)
(* update_plan, and the report is requested.  One task of the plan lasts 5 *)
(* days and is the first or the last; the others are shorter by the same   *)
(* amount, which is their slack.                                           *)
(***************************************************************************)
MaxPlanTasks == 6
MaxCompleted == 2

\* Three equal estimates: the expected duration is the estimate itself.
Steady(d) == <<d, d, d>>

\* 0.004 days, half a day and 3 days.
SlackChoices == {24, 50 * Hundredth, Days(3)}

InsightPlan(n, j, x) ==
    [k \in 1..n |-> <<Steady(IF k = j THEN Days(5) ELSE Days(5) - x), <<>>>>]

InsightPlans ==
    UNION { {InsightPlan(n, j, x) : j \in {1, n}, x \in SlackChoices} : n \in 1..MaxPlanTasks }

\* The buffer the deadline leaves after the 5 days of the plan, before rounding.
BufferChoices ==
    { -Days(1), -20, Days(2), Days(3), Days(5) - 20, Days(5) }

Deadlines ==
    {None} \cup {Some(ProjectStart + timedelta(Days(5) + b)) : b \in BufferChoices}

\* update_plan marking the task at position i complete.
CompleteTask(i) ==
    /\ completed_tasks(tasks) < MaxCompleted
    /\ update_plan(i, None, Some(TRUE))

NextInsights ==
    \/ \E task_dicts \in InsightPlans, dl \in Deadlines : create_plan(task_dicts, dl)
    \/ \E i \in 1..MaxPlanTasks : CompleteTask(i)
    \/ get_plan_insights

SpecInsights == InitApi /\ [][NextInsights]_vars

(***************************************************************************)
(* OllamaService.  The language model is reached over HTTP; what comes     *)
(* back is outside the program, so a reply is an input: the request raises *)
(* (no connection, timeout, a body that is not JSON), or it returns a      *)
(* status code and the text of the "response" field.  The text either      *)
(* holds no JSON array, or an array that json.loads rejects, or an array   *)
(* of entries.  An entry is unusable (not an object, or a key is missing)  *)
(* or carries three estimates and a dependency list.  An estimate of 0     *)
(* stands for any value that is not a positive finite number.  A cleaned   *)
(* task is <<estimates, dependencies>>, as in TaskDictLists.               *)
(***************************************************************************)
MaxReplyEntries == 3

Unusable == [usable |-> FALSE, est |-> <<0, 0, 0>>, deps |-> <<>>]

Usable(est, deps) == [usable |-> TRUE, est |-> est, deps |-> deps]

\* _to_positive_float(value, fallback)
to_positive_float(value, fallback) == IF value > 0 THEN value ELSE fallback

\* services.py lines 155-157 and 175: the three estimates of a cleaned task.
CleanEstimates(est) ==
    LET optimistic  == to_positive_float(est[1], Days(1))
        most_likely == to_positive_float(est[2], Max({optimistic, Days(3) \div 2}))
        pessimistic == to_positive_float(est[3],
                           Max({(3 * most_likely) \div 2, Days(3)}))
    IN  <<optimistic, most_likely, Max({pessimistic, most_likely, optimistic})>>

\* 0 <= dep_idx < 50 and dep_idx != idx, idx being the entry's position in
\* the reply.
DependencyKept(dep_idx, idx) == 0 <= dep_idx /\ dep_idx < 50 /\ dep_idx # idx

\* The loop over enumerate(candidate): cleaned_tasks.
cleaned_tasks(candidate) ==
    LET \* The positions (from 1) of the usable entries, in order.
        kept == SelectSeq([k \in DOMAIN candidate |-> k],
                          LAMBDA k : candidate[k].usable)
    IN  [q \in DOMAIN kept |->
            <<CleanEstimates(candidate[kept[q]].est),
              SelectSeq(candidate[kept[q]].deps,
                        LAMBDA d : DependencyKept(d, kept[q] - 1))>>]

NoArray   == [kind |-> "no array", candidate |-> <<>>]
Malformed == [kind |-> "malformed", candidate |-> <<>>]
Array(candidate) == [kind |-> "array", candidate |-> candidate]

\* _parse_tasks_from_response(response_text, goal): None, or the non-empty
\* list of cleaned tasks.
parse_tasks_from_response(response_text, goal) ==
    IF response_text.kind # "array"
    THEN None
    ELSE IF cleaned_tasks(response_text.candidate) = <<>>
         THEN None
         ELSE Some(cleaned_tasks(response_text.candidate))

\* The entries and replies the model draws from.
ReplyEntries ==
    {Unusable}
        \cup {Usable(est, deps) :
                 est \in {Short, <<0, 0, 0>>},
                 deps \in {<<>>, <<0>>, <<1>>, <<2>>, <<50>>, <<-1>>}}

ResponseTexts ==
    {NoArray, Malformed}
        \cup {Array(candidate) : candidate \in SeqsUpTo(ReplyEntries, MaxReplyEntries)}

Goal == "goal"

\* The service keeps nothing between calls, so a behaviour makes one call.
ParseReply ==
    /\ ollama = NoServiceCall
    /\ \E response_text \in ResponseTexts :
         ollama' = [op            |-> "_parse_tasks_from_response",
                    response_text |-> response_text,
                    result        |-> parse_tasks_from_response(response_text, Goal)]
    /\ UNCHANGED <<tasks, before, ret, response, plan, insights>>

\* The outcome of requests.post(...) and response.json().
Raises == [raised |-> TRUE, status_code |-> 0, response_text |-> NoArray]

Status(status_code, response_text) ==
    [raised |-> FALSE, status_code |-> status_code, response_text |-> response_text]

\* A Python call of the parser with the positional arguments args.  It is
\* def _parse_tasks_from_response(self, response_text, goal): neither
\* parameter has a default, so a call with another number of arguments
\* raises TypeError before the body runs.
CallParser(args) ==
    IF Len(args) # Len(<<"response_text", "goal">>)
    THEN [raised |-> TRUE, value |-> None]
    ELSE [raised |-> FALSE, value |-> parse_tasks_from_response(args[1], args[2])]

\* _request_structured_tasks(prompt, attempt_label, goal), for the reply the
\* request gets.
request_structured_tasks(reply, goal) ==
    IF reply.raised
    THEN [raised |-> TRUE, value |-> None]
    ELSE IF reply.status_code # 200
    THEN [raised |-> FALSE, value |-> None]
    ELSE CallParser(<<reply.response_text, goal>>)

\* _generate_dynamic_fallback(goal): six tasks, whatever the goal's keywords
\* (they choose the names); task idx depends on every task before it.
generate_dynamic_fallback(goal) ==
    [k \in 1..6 |->
        LET idx == k - 1
            HalfDays(n) == n * (TicksPerDay \div 2)
            QuarterDays(n) == n * (TicksPerDay \div 4)
        IN  << << Max({Days(1), HalfDays(3 + idx)}),
                  Max({Days(2), QuarterDays(12 + 3 * idx)}),
                  Max({HalfDays(7), HalfDays(9 + 2 * idx)}) >>,
               [q \in 1..idx |-> q - 1] >>]

\* except Exception: whatever an attempt raises is caught (and logged).
Caught(outcome) == TRUE

\* Variant: whatever an attempt returns is passed on.
AttemptSucceeded_Returned(outcome) == ~outcome.raised

\* try: tasks = ...; if tasks: return tasks / except Exception: (logged)
AttemptSucceeded(outcome) ==
    ~outcome.raised /\ outcome.value # None /\ Val(outcome.value) # <<>>

\* generate_tasks(goal, deadline), for the replies the attempts would get:
\* the loop over the primary and the retry prompt, then the fallback.
RECURSIVE generate_tasks_from(_, _, _)
generate_tasks_from(replies, goal, made) ==
    IF replies = <<>>
    THEN [raised   |-> FALSE,
          result   |-> Some(generate_dynamic_fallback(goal)),
          attempts |-> made,
          fallback |-> TRUE]
    ELSE LET outcome == request_structured_tasks(Head(replies), goal)
         IN  IF outcome.raised /\ ~Caught(outcome)
             THEN [raised   |-> TRUE,
                   result   |-> None,
                   attempts |-> made + 1,
                   fallback |-> FALSE]
             ELSE IF AttemptSucceeded(outcome)
             THEN [raised   |-> FALSE,
                   result   |-> outcome.value,
                   attempts |-> made + 1,
                   fallback |-> FALSE]
             ELSE generate_tasks_from(Tail(replies), goal, made + 1)

generate_tasks(replies, goal) == generate_tasks_from(replies, goal, 0)

\* OllamaService.refine_plan_with_feedback(goal, current_tasks, feedback),
\* for the reply the request gets.  The parser is called with the response
\* text alone.
OllamaService_refine_plan_with_feedback(goal, current_tasks, reply) ==
    IF reply.raised
    THEN current_tasks
    ELSE IF reply.status_code = 200
    THEN LET parsed == CallParser(<<reply.response_text>>)
         IN  IF parsed.raised
             THEN current_tasks
             ELSE IF parsed.value # None /\ Val(parsed.value) # <<>>
             THEN Val(parsed.value)
             ELSE current_tasks
    ELSE current_tasks

\* The replies an attempt of generate_tasks may get: failures, and arrays of
\* one entry at most.
AttemptReplies ==
    {Raises, Status(500, NoArray), Status(200, NoArray), Status(200, Malformed)}
        \cup {Status(200, Array(candidate)) : candidate \in SeqsUpTo(ReplyEntries, 1)}

\* The replies a refinement may get.
RefineReplies ==
    {Raises, Status(500, NoArray)} \cup {Status(200, text) : text \in ResponseTexts}

\* The task lists of a stored plan that a refinement starts from.
CurrentTaskLists ==
    { << <<Short, <<>>>>, <<Long, <<>>>> >>,
      << <<Short, <<>>>>, <<Long, <<0>>>>, <<Short, <<1>>>> >> }

GenerateTasks ==
    /\ ollama = NoServiceCall
    /\ \E primary \in AttemptReplies, retry \in AttemptReplies :
         ollama' = [op      |-> "generate_tasks",
                    replies |-> <<primary, retry>>,
                    return  |-> generate_tasks(<<primary, retry>>, Goal)]
    /\ UNCHANGED <<tasks, before, ret, response, plan, insights>>

RefinePlan ==
    /\ ollama = NoServiceCall
    /\ \E current_tasks \in CurrentTaskLists, reply \in RefineReplies :
         ollama' = [op            |-> "refine_plan_with_feedback",
                    current_tasks |-> current_tasks,
                    reply         |-> reply,
                    result        |-> OllamaService_refine_plan_with_feedback(
                                          Goal, current_tasks, reply)]
    /\ UNCHANGED <<tasks, before, ret, response, plan, insights>>

NextOllama == ParseReply \/ GenerateTasks \/ RefinePlan

SpecOllama == InitApi /\ [][NextOllama]_vars

(***************************************************************************)
(* Vocabulary of the properties, stated on the task list itself and not    *)
(* through the engine's graph.                                             *)
(***************************************************************************)
\* The in-range dependency edges <<dep, i>> of a task list.
DepEdges(ts) ==
    {e \in Nodes(ts) \X Nodes(ts) : e[1] \in Range(TaskAt(ts, e[2]).dependencies)}

RECURSIVE Grow(_, _)
Grow(E, S) ==
    LET S2 == S \cup {e[2] : e \in {x \in E : x[1] \in S}}
    IN  IF S2 = S THEN S ELSE Grow(E, S2)

\* Nodes reached from v along one edge or more.
Descendants(E, v) == Grow(E, {e[2] : e \in {x \in E : x[1] = v}})

HasCycle(ts) == \E v \in Nodes(ts) : v \in Descendants(DepEdges(ts), v)

\* What a call on the list ts with the latest call's start date leaves behind.
Outcome(ts) ==
    LET r == compute_schedule(ts, ret.start_date)
    IN  [ outcome        |-> IF r.raised THEN "ValueError" ELSE "ok",
          derived        |-> DerivedOf(r.tasks),
          critical_path  |-> r.critical_path,
          total_duration |-> r.total_duration ]

Observed ==
    [ outcome        |-> ret.outcome,
      derived        |-> DerivedOf(tasks),
      critical_path  |-> ret.critical_path,
      total_duration |-> ret.total_duration ]

\* The list ts with entry p of task k's dependency list taken out.
WithoutEntry(ts, k, p) ==
    [ts EXCEPT ![k].dependencies =
        [q \in 1..(Len(@) - 1) |-> IF q < p THEN @[q] ELSE @[q + 1]]]

AllPositive(ts) ==
    \A k \in DOMAIN ts :
        /\ ts[k].optimistic_duration > 0
        /\ ts[k].most_likely_duration > 0
        /\ ts[k].pessimistic_duration > 0

(***************************************************************************)
(* C1.  A non-empty task list whose in-range dependency edges contain a    *)
(* directed cycle is rejected: the call raises the cycle ValueError and    *)
(* returns no tuple.                                                       *)
(***************************************************************************)
C1_CycleRejected ==
    (Called /\ before # <<>> /\ HasCycle(before)) => Rejected

\* A rejected list of three tasks whose cycle is not a self-loop.
C1_Witness ==
    /\ Rejected
    /\ Len(before) = 3
    /\ \E i, j \in Nodes(before) :
         i # j /\ <<i, j>> \in DepEdges(before) /\ <<j, i>> \in DepEdges(before)

(***************************************************************************)
(* C2.  A rejected call produces no partial output: every derived column   *)
(* of every task holds after the call what it held before it.              *)
(***************************************************************************)
C2_NoPartialOutput ==
    Rejected => DerivedOf(tasks) = DerivedOf(before)

(***************************************************************************)
(* C3.  A task's own index in its dependency list is dropped silently: the *)
(* call does what it does on the same list without that entry (so it       *)
(* raises nothing on account of the entry).                                *)
(***************************************************************************)
C3_SelfDependencyDropped ==
    Called =>
        \A k \in DOMAIN before : \A p \in DOMAIN before[k].dependencies :
            before[k].dependencies[p] = k - 1
                => Observed = Outcome(WithoutEntry(before, k, p))

(***************************************************************************)
(* C4.  An out-of-range dependency entry (below 0, or the number of tasks  *)
(* or more) is dropped silently: outcome, derived columns, critical_path   *)
(* and total_duration are those of the same list without that entry.       *)
(***************************************************************************)
C4_OutOfRangeDropped ==
    Called =>
        \A k \in DOMAIN before : \A p \in DOMAIN before[k].dependencies :
            before[k].dependencies[p] \notin Nodes(before)
                => Observed = Outcome(WithoutEntry(before, k, p))

\* A schedule computed for a task that lists a negative index next to a
\* genuine predecessor.
C4_Witness ==
    /\ Succeeded
    /\ \E k \in DOMAIN before :
         /\ \E p \in DOMAIN before[k].dependencies : before[k].dependencies[p] < 0
         /\ \E e \in DepEdges(before) : e[2] = k - 1

(***************************************************************************)
(* C5.  The returned critical_path is a longest path of the dependency DAG *)
(* weighted by expected_duration: no source-to-sink path has a larger sum  *)
(* of expected durations.  (Stated for positive estimates.)                *)
(***************************************************************************)
IsPath(ts, path) ==
    /\ path # <<>>
    /\ \A q \in 1..(Len(path) - 1) : <<path[q], path[q + 1]>> \in DepEdges(ts)

IsSourceToSinkPath(ts, path) ==
    /\ IsPath(ts, path)
    /\ ~\E e \in DepEdges(ts) : e[2] = path[1]
    /\ ~\E e \in DepEdges(ts) : e[1] = path[Len(path)]

RECURSIVE PathWeight(_, _)
PathWeight(ts, path) ==
    IF path = <<>> THEN 0
    ELSE Val(TaskAt(ts, Head(path)).expected_duration) + PathWeight(ts, Tail(path))

C5_CriticalPathIsLongest ==
    (Succeeded /\ tasks # <<>> /\ AllPositive(tasks)) =>
        \A path \in SeqsUpTo(Nodes(tasks), Len(tasks)) :
            IsSourceToSinkPath(tasks, path)
                => PathWeight(tasks, path) <= PathWeight(tasks, ret.critical_path)

(***************************************************************************)
(* C6.  After a successful call every task's expected_duration is          *)
(* (optimistic + 4 * most_likely + pessimistic) / 6, whatever value the    *)
(* column held before the call.                                            *)
(***************************************************************************)
C6_PertFormula ==
    Succeeded =>
        \A k \in DOMAIN tasks :
            /\ tasks[k].expected_duration # None
            /\ 6 * Val(tasks[k].expected_duration)
                 = tasks[k].optimistic_duration + 4 * tasks[k].most_likely_duration
                     + tasks[k].pessimistic_duration

\* update_plan has changed a task's estimates to the test suite's (2, 5, 8)
\* days: the column held another value before the call and holds exactly 5
\* days after it.
C6_Witness ==
    /\ Succeeded
    /\ \E k \in DOMAIN tasks :
         /\ <<tasks[k].optimistic_duration, tasks[k].most_likely_duration,
              tasks[k].pessimistic_duration>> = <<Days(2), Days(5), Days(8)>>
         /\ before[k].expected_duration # None
         /\ before[k].expected_duration # Some(Days(5))
         /\ tasks[k].expected_duration = Some(Days(5))

(***************************************************************************)
(* C7.  After a successful call every task has                             *)
(* slack = latest_start - earliest_start = latest_finish - earliest_finish.*)
(***************************************************************************)
C7_SlackIdentity ==
    Succeeded =>
        \A k \in DOMAIN tasks :
            /\ Val(tasks[k].slack)
                 = Val(tasks[k].latest_start) - Val(tasks[k].earliest_start)
            /\ Val(tasks[k].slack)
                 = Val(tasks[k].latest_finish) - Val(tasks[k].earliest_finish)

\* A schedule in which a task that has a predecessor has slack to spare.
C7_Witness ==
    /\ Succeeded
    /\ \E e \in DepEdges(tasks) : Val(TaskAt(tasks, e[2]).slack) > 0

(***************************************************************************)
(* C8.  After a successful call is_on_critical_path is 1 exactly for the   *)
(* tasks whose slack is less than 0.01 day off zero, and 0 for the others. *)
(***************************************************************************)
C8_CriticalFlag ==
    Succeeded =>
        \A k \in DOMAIN tasks :
            tasks[k].is_on_critical_path
                = Some(IF 100 * Abs(Val(tasks[k].slack)) < TicksPerDay THEN 1 ELSE 0)

\* A task a thousandth of a day short of the longest one: its slack is not
\* zero and it is flagged.
C8_Witness ==
    /\ Succeeded
    /\ \E k \in DOMAIN tasks :
         Val(tasks[k].slack) > 0 /\ tasks[k].is_on_critical_path = Some(1)

(***************************************************************************)
(* C9.  After a successful call on tasks whose three estimates are all     *)
(* positive, earliest_start, earliest_finish, latest_start, latest_finish  *)
(* and slack are all at least 0.                                           *)
(***************************************************************************)
C9_NonNegative ==
    (Succeeded /\ AllPositive(tasks)) =>
        \A k \in DOMAIN tasks :
            /\ Val(tasks[k].earliest_start) >= 0
            /\ Val(tasks[k].earliest_finish) >= 0
            /\ Val(tasks[k].latest_start) >= 0
            /\ Val(tasks[k].latest_finish) >= 0
            /\ Val(tasks[k].slack) >= 0

\* Two predecessors of different length joining in a third task.
C9_Witness ==
    /\ Succeeded
    /\ AllPositive(tasks)
    /\ \E e, f \in DepEdges(tasks) :
         /\ e[2] = f[2]
         /\ Val(TaskAt(tasks, e[1]).earliest_finish)
              < Val(TaskAt(tasks, f[1]).earliest_finish)
         /\ Val(TaskAt(tasks, e[1]).slack) > 0

(***************************************************************************)
(* C10.  Idempotence: a call on a list that a successful call with the     *)
(* same start date left behind, its inputs unmodified, leaves every        *)
(* derived column as it was and returns the same critical_path and         *)
(* total_duration.                                                         *)
(***************************************************************************)
C10_Idempotent ==
    [][ ( /\ Succeeded
          /\ ret'.start_date = ret.start_date
          /\ InputsOf(tasks') = InputsOf(tasks) )
        => (tasks' = tasks /\ ret' = ret) ]_vars

\* A second call has run on the list the first one scheduled: three tasks, two
\* of them joining in the third.
C10_Witness ==
    /\ Succeeded
    /\ before = tasks
    /\ \E e, f \in DepEdges(tasks) : e[2] = f[2] /\ e[1] # f[1]

(***************************************************************************)
(* C11.  Sequential chain: in a chain of N >= 1 tasks where every task     *)
(* after the first depends only on the task before it, each task starts    *)
(* when the one before it finishes, every task has slack 0 and is flagged  *)
(* on the critical path, and total_duration is the sum of the expected     *)
(* durations.  (Stated for positive estimates, the Task invariant.)        *)
(***************************************************************************)
IsChain(ts) ==
    /\ Len(ts) >= 1
    /\ ts[1].dependencies = <<>>
    /\ \A k \in 2..Len(ts) : ts[k].dependencies = <<k - 2>>

RECURSIVE SumExpected(_)
SumExpected(ts) ==
    IF ts = <<>> THEN 0 ELSE Val(Head(ts).expected_duration) + SumExpected(Tail(ts))

C11_SequentialChain ==
    (Called /\ IsChain(before) /\ AllPositive(before)) =>
        /\ Succeeded
        /\ \A k \in 1..(Len(tasks) - 1) :
             tasks[k + 1].earliest_start = tasks[k].earliest_finish
        /\ \A k \in DOMAIN tasks :
             tasks[k].slack = Some(0) /\ tasks[k].is_on_critical_path = Some(1)
        /\ ret.total_duration = SumExpected(tasks)

\* A scheduled chain of three tasks, one of them longer than the others.
C11_Witness ==
    /\ Succeeded
    /\ IsChain(before)
    /\ AllPositive(before)
    /\ Len(tasks) = 3
    /\ \E k \in DOMAIN tasks : tasks[k].expected_duration = Some(Days(5))

(***************************************************************************)
(* C13.  Independent tasks: when no dependency entry of any task is kept,  *)
(* every task has earliest_start 0 and total_duration is the largest       *)
(* expected_duration.                                                      *)
(***************************************************************************)
C13_IndependentTasks ==
    (Called /\ before # <<>> /\ DepEdges(before) = {}) =>
        /\ Succeeded
        /\ \A k \in DOMAIN tasks : tasks[k].earliest_start = Some(0)
        /\ ret.total_duration =
             Max({Val(tasks[k].expected_duration) : k \in DOMAIN tasks})

\* Three scheduled tasks without edges, the longest of them first.
C13_Witness ==
    /\ Succeeded
    /\ DepEdges(before) = {}
    /\ Len(tasks) = 3
    /\ tasks[1].expected_duration = Some(Days(5))
    /\ tasks[3].expected_duration = Some(Days(2))

(***************************************************************************)
(* C14.  Calendar mapping: after a successful call every task's start_date *)
(* is the project start plus earliest_start days and its end_date the      *)
(* project start plus earliest_finish days; a task with earliest_start 0   *)
(* starts at the project start and ends expected_duration days later.      *)
(* Dates are in tenths of a second and offsets in ticks of 14.4 seconds,   *)
(* so "d is s plus t days" reads d - s = 144 * t.                          *)
(***************************************************************************)
IsDaysAfter(d, s, t) == d - s = t * (DecisecondsPerDay \div TicksPerDay)

C14_CalendarMapping ==
    Succeeded =>
        \A k \in DOMAIN tasks :
            /\ tasks[k].start_date # None
            /\ tasks[k].end_date # None
            /\ IsDaysAfter(Val(tasks[k].start_date), ret.start_date,
                           Val(tasks[k].earliest_start))
            /\ IsDaysAfter(Val(tasks[k].end_date), ret.start_date,
                           Val(tasks[k].earliest_finish))
            /\ (tasks[k].earliest_start = Some(0) =>
                  /\ Val(tasks[k].start_date) = ret.start_date
                  /\ IsDaysAfter(Val(tasks[k].end_date), ret.start_date,
                                 Val(tasks[k].expected_duration)))

\* A task that starts after a predecessor whose duration is not a whole
\* number of days.
C14_Witness ==
    /\ Succeeded
    /\ \E k \in DOMAIN tasks :
         /\ Val(tasks[k].earliest_start) > 0
         /\ Val(tasks[k].earliest_start) % TicksPerDay # 0
         /\ Val(tasks[k].start_date) > ret.start_date

(***************************************************************************)
(* C15.  Empty input: a call on an empty task sequence is not an error and *)
(* returns ([], [], 0.0).                                                  *)
(***************************************************************************)
C15_EmptyInput ==
    (Called /\ before = <<>>) =>
        /\ Succeeded
        /\ tasks = <<>>
        /\ ret.critical_path = <<>>
        /\ ret.total_duration = 0

\* compute_schedule has been called on the empty list.
C15_Witness ==
    Called /\ before = <<>>

(***************************************************************************)
(* C12.  Parallel fan-in S -> {A, B} -> E: A and B start when S finishes;  *)
(* E starts at the later of the two branch finishes; a branch at least as  *)
(* long as the other has slack 0 and is flagged; a strictly shorter branch *)
(* has slack equal to the difference of the two durations, which is        *)
(* positive, and is not flagged when that difference is at least 0.01.     *)
(***************************************************************************)
C12_FanIn ==
    Called =>
        \A s, a, b, e \in Nodes(before) :
            IsDiamond(before, s, a, b, e) =>
                LET S == TaskAt(tasks, s)
                    A == TaskAt(tasks, a)
                    B == TaskAt(tasks, b)
                    E == TaskAt(tasks, e)
                    dA == Val(A.expected_duration)
                    dB == Val(B.expected_duration)
                IN  /\ Succeeded
                    /\ A.earliest_start = S.earliest_finish
                    /\ B.earliest_start = S.earliest_finish
                    /\ Val(E.earliest_start) =
                         Max({Val(A.earliest_finish), Val(B.earliest_finish)})
                    /\ (dA >= dB =>
                          A.slack = Some(0) /\ A.is_on_critical_path = Some(1))
                    /\ (dB < dA =>
                          /\ Val(B.slack) > 0
                          /\ Val(B.slack) = dA - dB
                          /\ (dA - dB >= Tolerance =>
                                B.is_on_critical_path = Some(0)))

\* The fixture of test_critical_path_identification, scheduled: a long
\* branch (5, 10, 15) beside a short one (1, 2, 3).
C12_Witness ==
    /\ Succeeded
    /\ \E s, a, b, e \in Nodes(before) :
         /\ IsDiamond(before, s, a, b, e)
         /\ Inputs(TaskAt(before, a)) = <<Days(5), Days(10), Days(15), <<s>>>>
         /\ Inputs(TaskAt(before, b)) = <<Days(1), Days(2), Days(3), <<s>>>>
         /\ TaskAt(tasks, b).slack = Some(Days(8))

(***************************************************************************)
(* C16.  The inputs are read-only: a call leaves every task's name,        *)
(* is_complete, three estimates and dependency list (malformed entries     *)
(* included) as they were, and the list keeps its length and order.        *)
(***************************************************************************)
C16_InputsReadOnly ==
    Called =>
        /\ Len(tasks) = Len(before)
        /\ InputsOf(tasks) = InputsOf(before)
        /\ OpaqueOf(tasks) = OpaqueOf(before)

\* A scheduled list of three named tasks, one of which lists an index
\* outside the range.
C16_Witness ==
    /\ Succeeded
    /\ Len(tasks) = 3
    /\ tasks[3].name = "Task 3"
    /\ \E k \in DOMAIN before :
         \E p \in DOMAIN before[k].dependencies :
            ~EdgeKept(before[k].dependencies[p], k - 1, Len(before))

(***************************************************************************)
(* C17.  Every API operation that calls compute_schedule answers the       *)
(* scheduler's cycle error with HTTP 400 carrying the cycle message, not   *)
(* with a server error.                                                    *)
(***************************************************************************)
MentionsCycle(detail) ==
    \E p \in 0..(Len(detail) - Len(CycleMessage)) :
        SubSeq(detail, p + 1, p + Len(CycleMessage)) = CycleMessage

RawBuffer ==
    (Val(plan.deadline) - Min({Val(tasks[k].start_date) : k \in DOMAIN tasks}))
        \div (DecisecondsPerDay \div TicksPerDay)
    - plan.total_duration

StatusFor(b) ==
    IF b >= Days(5) THEN "On track" ELSE IF b >= 0 THEN "At risk" ELSE "Behind"

C18_DeadlineStatus_AsClaimed ==
    insights # None =>
        IF plan.deadline = None
        THEN /\ Val(insights).deadline_status = "No deadline"
             /\ Val(insights).buffer_days = None
        ELSE /\ Val(insights).buffer_days = Some(RawBuffer)
             /\ Val(insights).deadline_status = StatusFor(RawBuffer)

(***************************************************************************)
(* C18, amended.  With a deadline, buffer_days is that difference rounded  *)
(* to two decimals, and the status follows the thresholds 5 and 0 on the   *)
(* rounded value; without a deadline the status is "No deadline" and       *)
(* buffer_days is None.                                                    *)
(***************************************************************************)
C18_DeadlineStatus ==
    insights # None =>
        IF plan.deadline = None
        THEN /\ Val(insights).deadline_status = "No deadline"
             /\ Val(insights).buffer_days = None
        ELSE /\ Val(insights).buffer_days # None
             /\ Abs(Val(Val(insights).buffer_days) - RawBuffer) * 2 <= Hundredth
             /\ Val(Val(insights).buffer_days) % Hundredth = 0
             /\ Val(insights).deadline_status = StatusFor(Val(Val(insights).buffer_days))

\* A report on a plan whose deadline leaves 4.9967 days: buffer_days is 5.0
\* and the status "On track".
C18_Witness ==
    /\ insights # None
    /\ plan.deadline # None
    /\ RawBuffer = Days(5) - 20
    /\ Val(insights).buffer_days = Some(Days(5))
    /\ Val(insights).deadline_status = "On track"

(***************************************************************************)
(* C19.  Risk label of the insight report.  For a plan with tasks the      *)
(* score is the sum of: 2 if buffer_days < 0, else 1 if buffer_days < 3    *)
(* (only with a deadline); 2 if more than 0.4 of the tasks have slack      *)
(* <= 0.1, else 1 if more than 0.2; 1 if at least 3 tasks are high-risk;   *)
(* 1 if progress is under 30 percent and not every task is complete.  The  *)
(* label is "High" iff the score is >= 4, "Medium" iff it is 2 or 3, and   *)
(* "Low" otherwise.                                                        *)
(***************************************************************************)
NearZeroSlack == {k \in DOMAIN tasks : Val(tasks[k].slack) * 10 <= TicksPerDay}

Completed == {k \in DOMAIN tasks : tasks[k].is_complete = Some(1)}

Candidates ==
    {k \in DOMAIN tasks : Val(tasks[k].slack) < Days(1) /\ k \notin Completed}

Score ==
    LET DeadlinePoints ==
            IF plan.deadline = None THEN 0
            ELSE IF Val(Val(insights).buffer_days) < 0 THEN 2
            ELSE IF Val(Val(insights).buffer_days) < Days(3) THEN 1
            ELSE 0
        SlackPoints ==
            IF 10 * Cardinality(NearZeroSlack) > 4 * Len(tasks) THEN 2
            ELSE IF 10 * Cardinality(NearZeroSlack) > 2 * Len(tasks) THEN 1
            ELSE 0
        CandidatePoints == IF Cardinality(Candidates) >= 3 THEN 1 ELSE 0
        ProgressPoints ==
            IF /\ 100 * Cardinality(Completed) < 30 * Len(tasks)
               /\ Cardinality(Completed) < Len(tasks)
            THEN 1 ELSE 0
    IN  DeadlinePoints + SlackPoints + CandidatePoints + ProgressPoints

C19_RiskLabel ==
    insights # None =>
        /\ Val(insights).overall_risk = "High"   <=> Score >= 4
        /\ Val(insights).overall_risk = "Medium" <=> (2 <= Score /\ Score < 4)
        /\ Val(insights).overall_risk = "Low"    <=> Score < 2

\* A report labelled "High" on a score of exactly 4 that every term but the
\* deadline feeds: most tasks near zero slack, three or more candidates,
\* little progress, and a buffer of exactly 3 days.
C19_Witness ==
    /\ insights # None
    /\ Val(insights).overall_risk = "High"
    /\ Score = 4
    /\ plan.deadline # None /\ Val(insights).buffer_days = Some(Days(3))
    /\ 10 * Cardinality(NearZeroSlack) > 4 * Len(tasks)
    /\ Cardinality(Candidates) >= 3
    /\ 100 * Cardinality(Completed) < 30 * Len(tasks)

(***************************************************************************)
(* C20.  high_risk_tasks of the insight report lists only incomplete tasks *)
(* with slack < 1.0, each with impact "Critical" if the task is flagged on *)
(* the critical path and "High" otherwise; the list is sorted ascending by *)
(* slack, has at most 5 entries, and no candidate left out has a smaller   *)
(* slack than a listed one.                                                *)
(***************************************************************************)
C20_HighRiskTasks ==
    insights # None =>
        LET listed == Val(insights).high_risk_tasks
            \* The positions of the tasks the report lists, found by name.
            Listed ==
                {k \in DOMAIN tasks :
                    \E q \in DOMAIN listed : listed[q].name = tasks[k].name}
        IN  /\ Len(listed) <= 5
            /\ Cardinality(Listed) = Len(listed)
            /\ Listed \subseteq Candidates
            /\ \A q \in DOMAIN listed : \A k \in Listed :
                   listed[q].name = tasks[k].name =>
                       listed[q].impact =
                           IF tasks[k].is_on_critical_path = Some(1)
                           THEN "Critical" ELSE "High"
            /\ \A q \in 1..(Len(listed) - 1) : listed[q].slack <= listed[q + 1].slack
            /\ \A out \in Candidates \ Listed : \A k \in Listed :
                   Val(tasks[out].slack) >= Val(tasks[k].slack)

(***************************************************************************)
(* C21.  The recommendations of the insight report come in a fixed order,  *)
(* at most one per condition: the deadline advice (exceeded if buffer_days *)
(* < 0, thin buffer if 0 <= buffer_days < 3, "set a deadline" without a    *)
(* deadline, nothing from 3 days of buffer on), then the spotlight on the  *)
(* high-risk task of smallest slack iff there is a high-risk task, then    *)
(* the re-sequencing advice iff some task has slack <= 0.1, then the       *)
(* progress reminder iff progress is under 100 percent.                    *)
(***************************************************************************)
C21_Recommendations ==
    insights # None =>
        LET DeadlineAdvice ==
                IF plan.deadline = None
                THEN <<"Set a deadline to track schedule risk and buffer more effectively.">>
                ELSE IF Val(Val(insights).buffer_days) < 0
                THEN <<"Extend the deadline or remove scope; the plan exceeds the available time.">>
                ELSE IF Val(Val(insights).buffer_days) < Days(3)
                THEN <<"Add contingency or accelerate critical tasks to improve the schedule buffer.">>
                ELSE <<>>
            \* The candidates no other candidate has less slack than.
            MostConstrained ==
                {k \in Candidates :
                    \A c \in Candidates : Val(tasks[k].slack) <= Val(tasks[c].slack)}
            SpotlightOn(k) ==
                "Prioritise '" \o tasks[k].name \o "' - slack is only "
                    \o ToString(Round2(Val(tasks[k].slack))) \o " ticks."
            Spotlights ==
                IF Candidates = {}
                THEN {<<>>}
                ELSE {<<SpotlightOn(k)>> : k \in MostConstrained}
            ResequenceAdvice ==
                IF NearZeroSlack # {}
                THEN <<"Introduce parallel workstreams or re-sequence tasks to reduce the number of zero-slack items.">>
                ELSE <<>>
            ProgressReminder ==
                IF Cardinality(Completed) < Len(tasks)
                THEN <<"Review completed work weekly and update task statuses to keep the plan accurate.">>
                ELSE <<>>
        IN  /\ Len(Val(insights).recommendations) <= 4
            /\ \E spotlight \in Spotlights :
                   Val(insights).recommendations =
                       DeadlineAdvice \o spotlight \o ResequenceAdvice \o ProgressReminder

(***************************************************************************)
(* C22.  Forward pass: after a successful call, every task's               *)
(* earliest_start is 0 if none of its dependency entries is kept and       *)
(* otherwise the largest earliest_finish among its predecessors; its       *)
(* earliest_finish is earliest_start plus expected_duration; and           *)
(* total_duration is the largest earliest_finish (0 for no tasks).         *)
(***************************************************************************)
\* The tasks a kept dependency entry of the task at position k names.
Predecessors(ts, k) == {e[1] : e \in {x \in DepEdges(ts) : x[2] = k - 1}}

\* The tasks that name the task at position k in a kept dependency entry.
Successors(ts, k) == {e[2] : e \in {x \in DepEdges(ts) : x[1] = k - 1}}

C22_ForwardPass ==
    Succeeded =>
        /\ \A k \in DOMAIN tasks :
             /\ Val(tasks[k].earliest_start) =
                  IF Predecessors(tasks, k) = {}
                  THEN 0
                  ELSE Max({Val(TaskAt(tasks, p).earliest_finish) :
                               p \in Predecessors(tasks, k)})
             /\ Val(tasks[k].earliest_finish) =
                  Val(tasks[k].earliest_start) + Val(tasks[k].expected_duration)
        /\ ret.total_duration =
             IF tasks = <<>>
             THEN 0
             ELSE Max({Val(tasks[k].earliest_finish) : k \in DOMAIN tasks})

\* A scheduled task with two predecessors that finish at different times,
\* listed with the earlier one first, in a plan that ends after it.
C22_Witness ==
    /\ Succeeded
    /\ \E k \in DOMAIN tasks :
         /\ Len(tasks[k].dependencies) = 2
         /\ Cardinality(Predecessors(tasks, k)) = 2
         /\ Val(TaskAt(tasks, tasks[k].dependencies[1]).earliest_finish)
              < Val(TaskAt(tasks, tasks[k].dependencies[2]).earliest_finish)
         /\ tasks[k].earliest_start =
              TaskAt(tasks, tasks[k].dependencies[2]).earliest_finish

(***************************************************************************)
(* C23.  Backward pass: after a successful call, every task's              *)
(* latest_finish is total_duration if no task depends on it and otherwise  *)
(* the smallest latest_start among its successors; its latest_start is     *)
(* latest_finish minus expected_duration.                                  *)
(***************************************************************************)
C23_BackwardPass ==
    Succeeded =>
        \A k \in DOMAIN tasks :
            /\ Val(tasks[k].latest_finish) =
                 IF Successors(tasks, k) = {}
                 THEN ret.total_duration
                 ELSE Min({Val(TaskAt(tasks, s).latest_start) :
                              s \in Successors(tasks, k)})
            /\ Val(tasks[k].latest_start) =
                 Val(tasks[k].latest_finish) - Val(tasks[k].expected_duration)

\* A scheduled task with two successors whose latest starts differ.
C23_Witness ==
    /\ Succeeded
    /\ \E k \in DOMAIN tasks :
         /\ Cardinality(Successors(tasks, k)) = 2
         /\ \E s, t \in Successors(tasks, k) :
              /\ Val(TaskAt(tasks, s).latest_start) < Val(TaskAt(tasks, t).latest_start)
              /\ tasks[k].latest_finish = TaskAt(tasks, s).latest_start

(***************************************************************************)
(* C24.  Order independence: after a successful call, the earliest and     *)
(* latest starts and finishes, slack, critical flag and total_duration are *)
(* what the passes give for every topological order of the graph, not only *)
(* for the one the call iterated in.                                       *)
(***************************************************************************)
\* Every arrangement of the nodes of G that puts predecessors first.
TopologicalOrders(G) ==
    {order \in [1..Cardinality(G.nodes) -> G.nodes] :
        /\ \A v \in G.nodes : \E q \in DOMAIN order : order[q] = v
        /\ \A q \in DOMAIN order : \A p \in Range(G.pred[order[q]]) :
               \E r \in 1..(q - 1) : order[r] = p}

C24_OrderIndependence ==
    (Succeeded /\ tasks # <<>>) =>
        LET t1 == WithExpected(before)
            G  == BuildGraph(t1)
            \* The numeric columns of a task.
            Times(t) ==
                <<t.earliest_start, t.earliest_finish, t.latest_start,
                  t.latest_finish, t.slack, t.is_on_critical_path>>
        IN  \A order \in TopologicalOrders(G) :
                LET r == ScheduleInOrder(G, t1, order, ret.start_date)
                IN  /\ [k \in DOMAIN tasks |-> Times(tasks[k])]
                         = [k \in DOMAIN r.tasks |-> Times(r.tasks[k])]
                    /\ ret.total_duration = r.total_duration

\* A scheduled plan of three tasks with an edge and a longer unrelated task:
\* it has three topological orders.
C24_Witness ==
    /\ Succeeded
    /\ Len(tasks) = 3
    /\ Cardinality(DepEdges(tasks)) = 1
    /\ Cardinality(TopologicalOrders(BuildGraph(tasks))) = 3
    /\ \E k \in DOMAIN tasks :
         /\ Predecessors(tasks, k) = {} /\ Successors(tasks, k) = {}
         /\ Val(tasks[k].earliest_finish) = ret.total_duration
         /\ \E j \in DOMAIN tasks : Val(tasks[j].slack) > 0

(***************************************************************************)
(* C25.  The returned critical_path agrees with the per-task flags: after  *)
(* a successful call on a non-empty list, every index in critical_path is  *)
(* of a task with is_on_critical_path = 1, and the expected durations      *)
(* along critical_path sum to total_duration.  (Stated for positive        *)
(* estimates.)                                                             *)
(***************************************************************************)
C25_PathMatchesFlags ==
    (Succeeded /\ tasks # <<>> /\ AllPositive(tasks)) =>
        /\ \A q \in DOMAIN ret.critical_path :
               /\ ret.critical_path[q] \in Nodes(tasks)
               /\ TaskAt(tasks, ret.critical_path[q]).is_on_critical_path = Some(1)
        /\ PathWeight(tasks, ret.critical_path) = ret.total_duration

(***************************************************************************)
(* C26.  Precedence is respected: after a successful call, for every kept  *)
(* dependency edge dep -> i, the earliest start of i is not before the     *)
(* earliest finish of dep, the latest start of i is not before the latest  *)
(* finish of dep, and the start_date of i is not before the end_date of    *)
(* dep.                                                                    *)
(***************************************************************************)
C26_Precedence ==
    Succeeded =>
        \A e \in DepEdges(tasks) :
            LET dep == TaskAt(tasks, e[1])
                i   == TaskAt(tasks, e[2])
            IN  /\ Val(i.earliest_start) >= Val(dep.earliest_finish)
                /\ Val(i.latest_start) >= Val(dep.latest_finish)
                /\ Val(i.start_date) >= Val(dep.end_date)

\* A schedule with an edge that is tight (the successor starts the moment
\* the prerequisite ends) and an edge that is slack in the backward pass.
C26_Witness ==
    /\ Succeeded
    /\ \E e \in DepEdges(tasks) :
         /\ Val(TaskAt(tasks, e[1]).earliest_finish) > 0
         /\ TaskAt(tasks, e[2]).start_date = TaskAt(tasks, e[1]).end_date
    /\ \E e \in DepEdges(tasks) :
         Val(TaskAt(tasks, e[2]).latest_start) > Val(TaskAt(tasks, e[1]).latest_finish)

(***************************************************************************)
(* C27.  Failure atomicity of plan mutation: when update_plan,             *)
(* refine_plan_with_feedback or natural_language_update answers with an    *)
(* error, the stored plan keeps exactly its previous tasks, total_duration *)
(* and critical_path; and none of the three leaves the plan without tasks. *)
(***************************************************************************)
C27_FailureAtomicity ==
    [][ (/\ response' # None
         /\ Val(response').op \in
                {"update_plan", "refine_plan_with_feedback", "natural_language_update"}) =>
            /\ tasks' # <<>>
            /\ Val(response').status >= 400 => (tasks' = tasks /\ plan' = plan)
      ]_vars

\* A mutation that was refused for a cycle, on a stored plan that differs
\* from the list the request tried to schedule.
C27_Witness ==
    /\ response # None
    /\ Val(response).op \in
           {"update_plan", "refine_plan_with_feedback", "natural_language_update"}
    /\ Val(response).status >= 400
    /\ Rejected
    /\ tasks # <<>>
    /\ plan.total_duration > 0
    /\ InputsOf(before) # InputsOf(tasks)

(***************************************************************************)
(* C30.  Dependency indices survive parsing: in the list the parser        *)
(* returns, every dependency index that named an entry of the reply names  *)
(* the position that same entry has in the returned list, and no returned  *)
(* task lists its own position, also when entries of the reply were        *)
(* skipped.                                                                *)
(***************************************************************************)
C30_IndicesSurviveParsing ==
    (ollama.op = "_parse_tasks_from_response" /\ ollama.result # None) =>
        LET candidate == ollama.response_text.candidate
            returned  == Val(ollama.result)
            \* The position (from 0) in the returned list of the reply's
            \* entry at position idx (from 0); -1 if the entry was skipped.
            ReturnedPosition(idx) ==
                IF candidate[idx + 1].usable
                THEN Cardinality({k \in 1..idx : candidate[k].usable})
                ELSE -1
        IN  \A j \in DOMAIN returned : \A q \in DOMAIN returned[j][2] :
                LET dep == returned[j][2][q]
                IN  /\ dep # j - 1
                    /\ dep < Len(candidate) => ReturnedPosition(dep) = dep

(***************************************************************************)
(* C28.  OllamaService.refine_plan_with_feedback returns the task list     *)
(* parsed from the reply whenever the request returns status 200 with a    *)
(* text that parses to a non-empty list of tasks; it returns current_tasks *)
(* unchanged only when the request fails, the status is not 200, or the    *)
(* text cannot be parsed.                                                  *)
(***************************************************************************)
C28_RefineReturnsParsedTasks ==
    ollama.op = "refine_plan_with_feedback" =>
        LET parsed == parse_tasks_from_response(ollama.reply.response_text, Goal)
        IN  IF ~ollama.reply.raised /\ ollama.reply.status_code = 200 /\ parsed # None
            THEN ollama.result = Val(parsed)
            ELSE ollama.result = ollama.current_tasks

(***************************************************************************)
(* C29.  OllamaService.generate_tasks never raises and always returns a    *)
(* non-empty task list: the tasks of the primary attempt if it produced    *)
(* any; otherwise, and only then, it makes the retry attempt and returns   *)
(* its tasks if it produced any; otherwise, and only then, the six-task    *)
(* fallback, in which task k depends on tasks 0..k-1, every dependency is  *)
(* in range, there is no cycle, and compute_schedule does not raise.       *)
(***************************************************************************)
C29_GenerateTasksTotal ==
    ollama.op = "generate_tasks" =>
        LET \* What a reply yields as tasks: None when the request raised,
            \* the status is not 200, or the text does not parse to a
            \* non-empty list.
            Produced(reply) ==
                IF reply.raised \/ reply.status_code # 200
                THEN None
                ELSE parse_tasks_from_response(reply.response_text, Goal)
            primary  == Produced(ollama.replies[1])
            retry    == Produced(ollama.replies[2])
            returned == ollama.return
        IN  /\ ~returned.raised
            /\ returned.result # None
            /\ Val(returned.result) # <<>>
            /\ returned.attempts = (IF primary # None THEN 1 ELSE 2)
            /\ returned.fallback <=> (primary = None /\ retry = None)
            /\ primary # None => returned.result = primary
            /\ (primary = None /\ retry # None) => returned.result = retry
            /\ returned.fallback =>
                 LET fallback == TasksFromDicts(Val(returned.result))
                 IN  /\ Len(fallback) = 6
                     /\ \A k \in DOMAIN fallback :
                            fallback[k].dependencies = [q \in 1..(k - 1) |-> q - 1]
                     /\ ~HasCycle(fallback)
                     /\ AllPositive(fallback)
                     /\ ~compute_schedule(fallback, ProjectStart).raised

\* Both attempts came to nothing, one by raising and one by a reply without
\* usable entries, and the fallback was returned.
C29_Witness ==
    /\ ollama.op = "generate_tasks"
    /\ ollama.replies[1].raised
    /\ ollama.replies[2] = Status(200, Array(<<Unusable>>))
    /\ ollama.return.fallback
    /\ ollama.return.attempts = 2

====
